---- MODULE Spec2Model ----
(***************************************************************************)
(* A model of generate_rss_feed.py: the link extractor                     *)
(* (extract_article_links), the aggregation loop of main, the sort by      *)
(* parsed publication date, the RSS channel builder and the HTML page      *)
(* writer.                                                                 *)
(*                                                                         *)
(* Strings are TLA+ strings; the string tests of the code (substring,      *)
(* prefix, suffix, lower-casing, stripping, host name parsing) are         *)
(* computed character by character.  A parsed description is the list of   *)
(* its nodes in document order, each with the index of its parent, which   *)
(* is the view the code has of the tree (find_all, next_elements, find,    *)
(* get_text, get).                                                         *)
(***************************************************************************)
EXTENDS Integers, Sequences, FiniteSets, TLC

VARIABLES
    soup,           \* extract_article_links: the parsed description (node list)
    article_links,  \* extract_article_links: article_links
    xpc,            \* extract_article_links: "scan" (the loop over the <strong>
                    \* tags), "walk" (the loop over next_elements), "returned"
    strong_tag,     \* extract_article_links: the node strong_tag, 0 before the first
    elem,           \* extract_article_links: the node elem of the walk, 0 outside one
    environ,        \* os.environ: DAYS_LIMIT, set or not, and its text
    feed_urls,      \* main: feed_urls
    tz,             \* the local time zone time.mktime uses, seconds east of UTC
    now,            \* the clock read by time.time(), in ticks
    feeds,          \* what feedparser.parse gave for each feed url read so far
    pc,             \* main: position in the run
    fi,             \* main: index of the feed being processed
    ei,             \* main: index of the next entry of that feed
    cutoff_ts,      \* main: cutoff_ts, in ticks
    all_items,      \* main: all_items
    episodes,       \* main: episodes
    per_page,       \* generate_html_pages: per_page
    rss_items,      \* the <item> elements of output/generated_feed.xml
    html_files,     \* output/links_page_<k>.html: k -> the episodes it lists
    exit_code       \* <<the value main returned>>, <<>> before it returns

vars == <<soup, article_links, xpc, strong_tag, elem, environ, feed_urls, tz, now, feeds, pc, fi, ei,
          cutoff_ts, all_items, episodes, per_page, rss_items, html_files,
          exit_code>>

extractVars == <<soup, article_links, xpc, strong_tag, elem>>
mainVars == <<environ, feed_urls, tz, now, feeds, pc, fi, ei, cutoff_ts, all_items,
              episodes, per_page, rss_items, html_files, exit_code>>

----------------------------------------------------------------------------
(* Strings *)

Chr(s, i) == SubSeq(s, i, i)

StartsWith(s, p) == Len(p) <= Len(s) /\ SubSeq(s, 1, Len(p)) = p

EndsWith(s, p) == Len(p) <= Len(s) /\ SubSeq(s, Len(s) - Len(p) + 1, Len(s)) = p

\* Python's  p in s
Contains(s, p) == \E i \in 1..(Len(s) - Len(p) + 1) : SubSeq(s, i, i + Len(p) - 1) = p

\* the first position of character c in s, 0 when there is none
RECURSIVE IndexFrom(_, _, _)
IndexFrom(s, c, i) ==
    IF i > Len(s) THEN 0
    ELSE IF Chr(s, i) = c THEN i
    ELSE IndexFrom(s, c, i + 1)

UpperChars == "ABCDEFGHIJKLMNOPQRSTUVWXYZ"
LowerChars == "abcdefghijklmnopqrstuvwxyz"

\* upper-case letter -> lower-case letter
LowerOf == [c \in {Chr(UpperChars, k) : k \in 1..26} |->
              Chr(LowerChars, IndexFrom(UpperChars, c, 1))]

LowerChr(c) == IF c \in DOMAIN LowerOf THEN LowerOf[c] ELSE c

\* str.lower()
RECURSIVE Lower(_)
Lower(s) == IF Len(s) = 0 THEN "" ELSE LowerChr(Chr(s, 1)) \o Lower(Tail(s))

IsSpace(c) == c \in {" ", "\t", "\n"}

RECURSIVE LStrip(_)
LStrip(s) == IF Len(s) > 0 /\ IsSpace(Chr(s, 1)) THEN LStrip(Tail(s)) ELSE s

RECURSIVE RStrip(_)
RStrip(s) ==
    IF Len(s) > 0 /\ IsSpace(Chr(s, Len(s))) THEN RStrip(SubSeq(s, 1, Len(s) - 1)) ELSE s

\* str.strip()
Strip(s) == RStrip(LStrip(s))

----------------------------------------------------------------------------
(* The parsed description: BeautifulSoup(description_html, "html.parser").  *)
(* soup[i] is the i-th node in document order; parent = 0 is the document. *)

Elem(name, parent) ==
    [name |-> name, parent |-> parent, hasHref |-> FALSE, href |-> "", text |-> ""]

Anchor(parent, href) ==
    [name |-> "a", parent |-> parent, hasHref |-> TRUE, href |-> href, text |-> ""]

Text(parent, s) ==
    [name |-> "#text", parent |-> parent, hasHref |-> FALSE, href |-> "", text |-> s]

\* j lies inside the element at i
RECURSIVE IsDescendant(_, _, _)
IsDescendant(doc, j, i) ==
    /\ j > i
    /\ doc[j].parent > 0
    /\ (doc[j].parent = i \/ IsDescendant(doc, doc[j].parent, i))

\* Tag.get_text(strip=True): the stripped strings under the tag, joined by ""
RECURSIVE GetTextFrom(_, _, _)
GetTextFrom(doc, i, j) ==
    IF j > Len(doc) \/ ~IsDescendant(doc, j, i) THEN ""
    ELSE (IF doc[j].name = "#text" THEN Strip(doc[j].text) ELSE "")
         \o GetTextFrom(doc, i, j + 1)

get_text(doc, i) == GetTextFrom(doc, i, i + 1)

\* Tag.find("strong"): a <strong> among the descendants
FindStrong(doc, i) ==
    \E j \in (i + 1)..Len(doc) : doc[j].name = "strong" /\ IsDescendant(doc, j, i)

----------------------------------------------------------------------------
(* urlparse(href).hostname, for the href shapes  [scheme:][//netloc][path] *)

SchemeChars == "abcdefghijklmnopqrstuvwxyzABCDEFGHIJKLMNOPQRSTUVWXYZ0123456789+-."

\* the first position >= i of s holding one of the characters of stops, else Len(s)+1
RECURSIVE FirstOf(_, _, _)
FirstOf(s, stops, i) ==
    IF i > Len(s) THEN Len(s) + 1
    ELSE IF IndexFrom(stops, Chr(s, i), 1) # 0 THEN i
    ELSE FirstOf(s, stops, i + 1)

\* the last position of character c in s, 0 when there is none
RECURSIVE LastIndex(_, _, _)
LastIndex(s, c, i) ==
    IF i < 1 THEN 0
    ELSE IF Chr(s, i) = c THEN i
    ELSE LastIndex(s, c, i - 1)

\* urlsplit: what follows "scheme:" when the url starts with a scheme
AfterScheme(url) ==
    LET colon == IndexFrom(url, ":", 1)
    IN  IF /\ colon > 1
           /\ IndexFrom(LowerChars \o UpperChars, Chr(url, 1), 1) # 0
           /\ \A k \in 1..(colon - 1) : IndexFrom(SchemeChars, Chr(url, k), 1) # 0
        THEN SubSeq(url, colon + 1, Len(url))
        ELSE url

\* urlsplit: the netloc, "" when the url has none
Netloc(url) ==
    LET rest == AfterScheme(url)
    IN  IF StartsWith(rest, "//")
        THEN SubSeq(rest, 3, FirstOf(rest, "/?#", 3) - 1)
        ELSE ""

\* ParseResult.hostname or "": netloc without userinfo and port, lower-cased
Hostname(url) ==
    LET netloc   == Netloc(url)
        hostinfo == SubSeq(netloc, LastIndex(netloc, "@", Len(netloc)) + 1, Len(netloc))
        colon    == IndexFrom(hostinfo, ":", 1)
        host     == IF colon = 0 THEN hostinfo ELSE SubSeq(hostinfo, 1, colon - 1)
    IN  Lower(host)

----------------------------------------------------------------------------
(* extract_article_links *)

\* Keywords to look for in bold headings
markers == <<"free to read", "mentioned in this podcast">>

exclude_substrings ==
    <<"ft.com/techtonicsurvey", "ft.com/survey", "ep.ft.com", "subscribe",
      "newsletters", "newsletter", "ft.com/support">>

text_keywords ==
    <<"sign up", "subscribe", "transcript", "survey", "newsletter", "twitter">>

\* any(p in s for p in list)
AnyIn(list, s) == \E k \in 1..Len(list) : Contains(s, list[k])

\* line 99-100: the heading test of a <strong>
IsMarkerHeading(doc, i) ==
    /\ doc[i].name = "strong"
    /\ AnyIn(markers, Lower(get_text(doc, i)))

\* line 116: not href
HrefMissing(node) == ~node.hasHref \/ node.href = ""

\* line 120
IsMailto(href) == StartsWith(Lower(href), "mailto:")

\* line 132
HrefExcluded(href) == AnyIn(exclude_substrings, Lower(href))

\* line 142: the domain test
DomainAccepted(domain) == EndsWith(domain, "ft.com") \/ EndsWith(domain, "on.ft.com")

\* the keyword test without lower-casing the text
TextRejectedCaseSensitive(title_text) == AnyIn(text_keywords, title_text)

\* line 145-148
TextRejected(title_text) == AnyIn(text_keywords, Lower(title_text))

\* lines 110-151: the anchor at j passes every filter
AnchorAccepted(doc, j) ==
    /\ doc[j].name = "a"
    /\ ~FindStrong(doc, j)
    /\ ~HrefMissing(doc[j])
    /\ ~IsMailto(doc[j].href)
    /\ ~HrefExcluded(doc[j].href)
    /\ DomainAccepted(Hostname(doc[j].href))
    /\ ~TextRejected(get_text(doc, j))

\* lines 149-152: the pair appended for the anchor at j
LinkOf(doc, j) ==
    LET title_text == get_text(doc, j)
    IN  [title |-> IF title_text = "" THEN doc[j].href ELSE title_text,
         url   |-> doc[j].href]

\* only a <strong> ends a run
IsDelimiterStrongOnly(node) == node.name \in {"strong"}

\* only a <hr> ends a run
IsDelimiterHrOnly(node) == node.name \in {"hr"}

\* line 107: the tags that end a run
IsDelimiter(node) == node.name \in {"strong", "hr"}

\* lines 102, 107-108: the walk stops before node j
RunEnds(doc, j) == IF j > Len(doc) THEN TRUE ELSE IsDelimiter(doc[j])

\* lines 102-152: the walk over strong_tag.next_elements, from node j on
RECURSIVE RunLinks(_, _)
RunLinks(doc, j) ==
    IF RunEnds(doc, j) THEN <<>>
    ELSE IF AnchorAccepted(doc, j) THEN <<LinkOf(doc, j)>> \o RunLinks(doc, j + 1)
    ELSE RunLinks(doc, j + 1)

\* lines 153-155: leave the loop over the <strong> tags
StopScanning(links) == links # <<>>

\* lines 98-155: the loop over soup.find_all("strong"), from node i on
RECURSIVE ScanStrongs(_, _, _)
ScanStrongs(doc, i, links) ==
    IF i > Len(doc) THEN links
    ELSE IF IsMarkerHeading(doc, i)
         THEN LET found == links \o RunLinks(doc, i + 1)
              IN  IF StopScanning(found) THEN found ELSE ScanStrongs(doc, i + 1, found)
         ELSE ScanStrongs(doc, i + 1, links)

extract_article_links(doc) == ScanStrongs(doc, 1, <<>>)

----------------------------------------------------------------------------
(* Descriptions the extractor is run on: a description is a sequence of    *)
(* fragments, each a small subtree.  Inside a fragment parent indices are  *)
(* relative to the fragment; 0 is the document.                            *)

Fragment ==
    [ H_free  |-> <<Elem("strong", 0), Text(1, "Free to read:"), Elem("br", 0)>>,
      H_ment  |-> <<Elem("p", 0), Elem("strong", 1),
                    Text(2, " MENTIONED in this Podcast: ")>>,
      H_plain |-> <<Elem("strong", 0), Text(1, "Credits")>>,
      HR      |-> <<Elem("hr", 0)>>,
      A_ft    |-> <<Elem("p", 0), Anchor(1, "https://www.ft.com/content/1"),
                    Text(2, "Story one")>>,
      A_on    |-> <<Anchor(0, "https://on.ft.com/y"), Text(1, "  ")>>,
      A_fake  |-> <<Anchor(0, "https://fakeft.com/x"), Text(1, "Spoof")>>,
      A_mail  |-> <<Anchor(0, "MailTo:desk@ft.com"), Text(1, "Mail us")>>,
      A_tw    |-> <<Anchor(0, "https://x.com/ft"), Text(1, "FT on X")>>,
      A_sub   |-> <<Anchor(0, "https://www.ft.com/content/2"), Text(1, "Subscribe now")>>,
      A_news  |-> <<Anchor(0, "https://WWW.FT.com/NewsLetters"), Text(1, "Briefing")>>,
      A_none  |-> <<Elem("a", 0), Text(1, "Anchor")>>,
      A_bold  |-> <<Anchor(0, "https://www.ft.com/content/3"), Elem("strong", 1),
                    Text(2, "Read")>>,
      A_wrap  |-> <<Anchor(0, "https://www.ft.com/content/4"),
                    Anchor(1, "https://www.ft.com/content/5"), Text(2, "Inner"),
                    Elem("strong", 1), Text(4, "Bold")>> ]

\* fragments every description may use
CommonFragments == {"H_free", "H_plain", "HR", "A_ft", "A_bold"}

\* fragments of which a description uses at most one kind
SpecialFragments ==
    {"H_ment", "A_on", "A_fake", "A_mail", "A_tw", "A_sub", "A_news", "A_none", "A_wrap"}

\* the longest description, in fragments
MaxFrags == 4

\* the fragment with its parent indices moved by offset
Shift(frag, offset) ==
    [k \in 1..Len(frag) |->
        [frag[k] EXCEPT !.parent = IF @ = 0 THEN 0 ELSE @ + offset]]

\* the node list of a sequence of fragment names
RECURSIVE Parse(_)
Parse(names) ==
    IF names = <<>> THEN <<>>
    ELSE LET front == Parse(SubSeq(names, 1, Len(names) - 1))
         IN  front \o Shift(Fragment[names[Len(names)]], Len(front))

SeqsUpTo(S, n) == UNION {[1..k -> S] : k \in 0..n}

Descriptions ==
    {Parse(names) : names \in UNION {SeqsUpTo(CommonFragments \cup {f}, MaxFrags) :
                                        f \in SpecialFragments}}

----------------------------------------------------------------------------------------------------------------------------------------
(* extract_article_links run on one description, one loop iteration a step *)

InitExtract ==
    /\ soup \in Descriptions
    /\ article_links = <<>>
    /\ xpc = "scan"
    /\ strong_tag = 0
    /\ elem = 0

\* find_all("strong"): the first <strong> at or after node i, 0 when there is none
RECURSIVE NextStrong(_, _)
NextStrong(doc, i) ==
    IF i > Len(doc) THEN 0
    ELSE IF doc[i].name = "strong" THEN i
    ELSE NextStrong(doc, i + 1)

\* line 98, 100: the next <strong> holds no marker
SkipStrong ==
    /\ xpc = "scan"
    /\ LET nxt == NextStrong(soup, strong_tag + 1)
       IN  /\ nxt # 0
           /\ ~IsMarkerHeading(soup, nxt)
           /\ strong_tag' = nxt
    /\ UNCHANGED <<soup, article_links, xpc, elem>>
    /\ UNCHANGED mainVars

\* line 98-102: the next <strong> holds a marker: walk what follows it
EnterRun ==
    /\ xpc = "scan"
    /\ LET nxt == NextStrong(soup, strong_tag + 1)
       IN  /\ nxt # 0
           /\ IsMarkerHeading(soup, nxt)
           /\ strong_tag' = nxt
           /\ elem' = nxt + 1
    /\ xpc' = "walk"
    /\ UNCHANGED <<soup, article_links>>
    /\ UNCHANGED mainVars

\* lines 104-105, 110-148: a node that is passed over
WalkSkip ==
    /\ xpc = "walk"
    /\ ~RunEnds(soup, elem)
    /\ ~AnchorAccepted(soup, elem)
    /\ elem' = elem + 1
    /\ UNCHANGED <<soup, article_links, xpc, strong_tag>>
    /\ UNCHANGED mainVars

\* lines 110-152: an anchor that passes every filter
WalkAppend ==
    /\ xpc = "walk"
    /\ ~RunEnds(soup, elem)
    /\ AnchorAccepted(soup, elem)
    /\ article_links' = Append(article_links, LinkOf(soup, elem))
    /\ elem' = elem + 1
    /\ UNCHANGED <<soup, xpc, strong_tag>>
    /\ UNCHANGED mainVars

\* lines 107-108, 153-155: the walk ends at a <strong> or <hr>, or with the document
WalkEnd ==
    /\ xpc = "walk"
    /\ RunEnds(soup, elem)
    /\ xpc' = IF StopScanning(article_links) THEN "returned" ELSE "scan"
    /\ elem' = 0
    /\ UNCHANGED <<soup, article_links, strong_tag>>
    /\ UNCHANGED mainVars

\* line 156: no <strong> is left
ReturnLinks ==
    /\ xpc = "scan"
    /\ NextStrong(soup, strong_tag + 1) = 0
    /\ xpc' = "returned"
    /\ UNCHANGED <<soup, article_links, strong_tag, elem>>
    /\ UNCHANGED mainVars

ExtractNext ==
    \/ SkipStrong
    \/ EnterRun
    \/ WalkSkip
    \/ WalkAppend
    \/ WalkEnd
    \/ ReturnLinks

----------------------------------------------------------------------------
(* Time.  The clock counts ticks; time.mktime and the RFC 822 text of      *)
(* email.utils.formatdate hold whole seconds.                              *)

\* clock ticks in a second
TicksPerSec == 2

\* line 288: 24 * 60 * 60
DaySecs == 24 * 60 * 60

\* the second the run starts in: ten days after the epoch
StartSecs == 10 * DaySecs

\* time.mktime(pub_struct): the fields of pub_struct, which denote second
\* pub_struct of UTC, read as local time; in ticks
Mktime(pub_struct) == (pub_struct - tz) * TicksPerSec

\* email.utils.formatdate(ts, usegmt=True): "Thu, 01 Jan 1970 00:00:10 GMT"
\* is [fmt |-> "rfc822", secs |-> 10]; the seconds are floor(ts)
FormatDate(ts) == [fmt |-> "rfc822", secs |-> ts \div TicksPerSec]

\* lines 340-344: parse_pubdate, in ticks; a text that is no RFC 822 date gives 0.0
parse_pubdate(pubdate) ==
    IF pubdate.fmt = "rfc822" THEN pubdate.secs * TicksPerSec ELSE 0

----------------------------------------------------------------------------
(* int(text) of line 283 *)

Digits == "0123456789"

IsDigits(s) == Len(s) > 0 /\ \A k \in 1..Len(s) : IndexFrom(Digits, Chr(s, k), 1) # 0

RECURSIVE DigitsValue(_)
DigitsValue(s) ==
    IF Len(s) = 0 THEN 0
    ELSE 10 * DigitsValue(SubSeq(s, 1, Len(s) - 1)) + (IndexFrom(Digits, Chr(s, Len(s)), 1) - 1)

Unsigned(s) == IF Len(s) > 0 /\ Chr(s, 1) \in {"+", "-"} THEN Tail(s) ELSE s

\* int(text) raises ValueError
IntRaises(text) == ~IsDigits(Unsigned(Strip(text)))

IntOf(text) ==
    LET t == Strip(text)
    IN  IF Chr(t, 1) = "-" THEN 0 - DigitsValue(Unsigned(t)) ELSE DigitsValue(Unsigned(t))

\* lines 282-287: days_limit
days_limit(env) ==
    LET text == IF env.set THEN env.DAYS_LIMIT ELSE "5"
    IN  IF IntRaises(text) THEN 5
        ELSE IF IntOf(text) < 1 THEN 5
        ELSE IntOf(text)

----------------------------------------------------------------------------
(* main: the inputs *)

\* the most feed urls configured
MaxFeeds == 3

\* the most entries all feeds of a run hold together
MaxEntries == 2

\* the most ticks the clock advances while the feeds are read
MaxDrift == 2

\* the values of DAYS_LIMIT: unset, not a number, below 1, and a day count
Environments ==
    {[set |-> FALSE, DAYS_LIMIT |-> ""]}
    \cup {[set |-> TRUE, DAYS_LIMIT |-> t] : t \in {"five", "0", " 2"}}

\* local time zones, seconds east of UTC
TimeZones == {0, 60 * 60}

\* the markup of an entry's description, as fragment names
EntryDescriptions == {<<"H_free", "A_tw">>, <<"H_free", "A_ft", "A_on">>}

\* entry.published_parsed: absent, or five days before the start (on the
\* default cutoff when the local time is UTC, older than it east of UTC)
EntryChoices ==
    {[description |-> d, dated |-> FALSE, published_parsed |-> 0] : d \in EntryDescriptions}
    \cup {[description |-> d, dated |-> TRUE, published_parsed |-> t] :
            d \in EntryDescriptions, t \in {StartSecs - 5 * DaySecs}}

\* the entries parsed so far
RECURSIVE EntriesRead(_)
EntriesRead(fs) ==
    IF fs = <<>> THEN 0 ELSE Len(fs[Len(fs)].entries) + EntriesRead(SubSeq(fs, 1, Len(fs) - 1))

\* entry.title of the e-th entry of the f-th feed
EntryTitle(f, e) == "Episode " \o ToString(f) \o "." \o ToString(e)

\* parsed_feed.feed.title of the f-th feed
FeedTitle(f) == "Podcast " \o ToString(f)

InitMain ==
    /\ environ \in Environments
    /\ tz \in TimeZones
    /\ feed_urls \in {[i \in 1..n |-> "https://feeds.example/" \o ToString(i)] :
                        n \in 0..MaxFeeds}
    /\ now = StartSecs * TicksPerSec
    /\ feeds = <<>>
    /\ pc = "config"
    /\ fi = 0
    /\ ei = 0
    /\ cutoff_ts = 0
    /\ all_items = <<>>
    /\ episodes = <<>>
    /\ per_page = 10
    /\ rss_items = <<>>
    /\ html_files = <<>>
    /\ exit_code = <<>>

----------------------------------------------------------------------------
(* main: lines 276-336 *)

\* lines 282-288
ReadConfig ==
    /\ pc = "config"
    /\ cutoff_ts' = now - days_limit(environ) * DaySecs * TicksPerSec
    /\ fi' = 1
    /\ pc' = "feeds"
    /\ UNCHANGED <<environ, feed_urls, tz, now, feeds, ei, all_items, episodes,
                   per_page, rss_items, html_files, exit_code>>
    /\ UNCHANGED extractVars

\* the exception of feedparser.parse not caught: the run ends
ParseFailsUncaught ==
    /\ pc = "feeds"
    /\ fi <= Len(feed_urls)
    /\ feeds' = Append(feeds, [ok |-> FALSE, title |-> "", entries |-> <<>>])
    /\ pc' = "raised"
    /\ exit_code' = <<1>>
    /\ UNCHANGED <<environ, feed_urls, tz, now, fi, ei, cutoff_ts, all_items,
                   episodes, per_page, rss_items, html_files>>
    /\ UNCHANGED extractVars

\* lines 291-295: feedparser.parse raises
ParseFails ==
    /\ pc = "feeds"
    /\ fi <= Len(feed_urls)
    /\ feeds' = Append(feeds, [ok |-> FALSE, title |-> "", entries |-> <<>>])
    /\ fi' = fi + 1
    /\ UNCHANGED <<environ, feed_urls, tz, now, pc, ei, cutoff_ts, all_items,
                   episodes, per_page, rss_items, html_files, exit_code>>
    /\ UNCHANGED extractVars

\* lines 292, 296: feedparser.parse returns a feed
ParseReturns ==
    /\ pc = "feeds"
    /\ fi <= Len(feed_urls)
    /\ \E n \in 0..(MaxEntries - EntriesRead(feeds)) :
         \E es \in [1..n -> EntryChoices] :
            feeds' = Append(feeds,
                [ok      |-> TRUE,
                 title   |-> FeedTitle(fi),
                 entries |-> [e \in 1..n |->
                                [title            |-> EntryTitle(fi, e),
                                 description      |-> es[e].description,
                                 dated            |-> es[e].dated,
                                 published_parsed |-> es[e].published_parsed]]])
    /\ ei' = 1
    /\ pc' = "entries"
    /\ UNCHANGED <<environ, feed_urls, tz, now, fi, cutoff_ts, all_items,
                   episodes, per_page, rss_items, html_files, exit_code>>
    /\ UNCHANGED extractVars

\* the entry the loop of line 297 is at
Entry == feeds[fi].entries[ei]

\* extract_article_links of each description the entries use
LinksOfDescription == [d \in EntryDescriptions |-> extract_article_links(Parse(d))]

\* lines 299-300
EntryLinks(entry) == LinksOfDescription[entry.description]

\* the cutoff applied to an entry without a date as well, its date read as 0
BeforeCutoffDateless(entry) == Mktime(entry.published_parsed) < cutoff_ts

\* line 304, 309: the entry is older than the cutoff
BeforeCutoff(entry) == entry.dated /\ Mktime(entry.published_parsed) < cutoff_ts

\* lines 306, 313: pub_date, with the clock at t
PubDate(entry, t) ==
    IF entry.dated THEN FormatDate(Mktime(entry.published_parsed)) ELSE FormatDate(t)

\* lines 317-326: the items of one entry
ItemsOf(entry, feed_title, links, pub_date) ==
    [k \in 1..Len(links) |->
        [title       |-> links[k].title,
         link        |-> links[k].url,
         pubDate     |-> pub_date,
         description |-> "Article mentioned in '" \o entry.title \o "' from "
                          \o feed_title \o "."]]

\* lines 327-336: the episode of one entry
EpisodeOf(entry, feed_title, links, pub_date) ==
    [podcast |-> feed_title,
     episode |-> entry.title,
     pubDate |-> pub_date,
     links   |-> links]

\* lines 301-302: the entry has no article links
SkipNoLinks ==
    /\ pc = "entries"
    /\ ei <= Len(feeds[fi].entries)
    /\ EntryLinks(Entry) = <<>>
    /\ ei' = ei + 1
    /\ UNCHANGED <<environ, feed_urls, tz, now, feeds, pc, fi, cutoff_ts,
                   all_items, episodes, per_page, rss_items, html_files, exit_code>>
    /\ UNCHANGED extractVars

\* lines 304-310: the entry is older than the cutoff
SkipOld ==
    /\ pc = "entries"
    /\ ei <= Len(feeds[fi].entries)
    /\ EntryLinks(Entry) # <<>>
    /\ BeforeCutoff(Entry)
    /\ ei' = ei + 1
    /\ UNCHANGED <<environ, feed_urls, tz, now, feeds, pc, fi, cutoff_ts,
                   all_items, episodes, per_page, rss_items, html_files, exit_code>>
    /\ UNCHANGED extractVars

\* lines 304-336: the entry is kept; time.time() of line 313 reads a clock
\* that may have advanced
KeepEntry ==
    /\ pc = "entries"
    /\ ei <= Len(feeds[fi].entries)
    /\ EntryLinks(Entry) # <<>>
    /\ ~BeforeCutoff(Entry)
    /\ \E d \in 0..1 :
         /\ d = 0 \/ (~Entry.dated /\ now + d <= StartSecs * TicksPerSec + MaxDrift)
         /\ now' = now + d
         /\ LET links    == EntryLinks(Entry)
                pub_date == PubDate(Entry, now + d)
            IN  /\ all_items' = all_items \o ItemsOf(Entry, feeds[fi].title, links, pub_date)
                /\ episodes' = Append(episodes,
                                      EpisodeOf(Entry, feeds[fi].title, links, pub_date))
    /\ ei' = ei + 1
    /\ UNCHANGED <<environ, feed_urls, tz, feeds, pc, fi, cutoff_ts, per_page,
                   rss_items, html_files, exit_code>>
    /\ UNCHANGED extractVars

\* line 297: the entries of the feed are exhausted
NextFeed ==
    /\ pc = "entries"
    /\ ei > Len(feeds[fi].entries)
    /\ fi' = fi + 1
    /\ ei' = 0
    /\ pc' = "feeds"
    /\ UNCHANGED <<environ, feed_urls, tz, now, feeds, cutoff_ts, all_items,
                   episodes, per_page, rss_items, html_files, exit_code>>
    /\ UNCHANGED extractVars

----------------------------------------------------------------------------
(* main: lines 338-361, and the two renderers *)

\* the sort without reverse=True: x goes behind the items that are not newer
RECURSIVE InsertByDateAscending(_, _)
InsertByDateAscending(sorted, x) ==
    IF sorted = <<>> THEN <<x>>
    ELSE IF parse_pubdate(Head(sorted).pubDate) <= parse_pubdate(x.pubDate)
         THEN <<Head(sorted)>> \o InsertByDateAscending(Tail(sorted), x)
         ELSE <<x>> \o sorted

\* list.sort(key, reverse=True) puts x behind the items that are not older
RECURSIVE InsertByDate(_, _)
InsertByDate(sorted, x) ==
    IF sorted = <<>> THEN <<x>>
    ELSE IF parse_pubdate(Head(sorted).pubDate) >= parse_pubdate(x.pubDate)
         THEN <<Head(sorted)>> \o InsertByDate(Tail(sorted), x)
         ELSE <<x>> \o sorted

\* lines 346-347: sort(key=parse_pubdate of pubDate, reverse=True), a stable sort
RECURSIVE SortNewestFirst(_)
SortNewestFirst(list) ==
    IF list = <<>> THEN <<>>
    ELSE InsertByDate(SortNewestFirst(SubSeq(list, 1, Len(list) - 1)), list[Len(list)])

\* the guid taken from the title
build_rss_channel_guid_title(items) ==
    [k \in 1..Len(items) |->
        [title       |-> items[k].title,
         link        |-> items[k].link,
         guid        |-> [isPermaLink |-> "true", text |-> items[k].title],
         pubDate     |-> items[k].pubDate,
         description |-> items[k].description]]

\* lines 189-196: the <item> elements of the channel
build_rss_channel(items) ==
    [k \in 1..Len(items) |->
        [title       |-> items[k].title,
         link        |-> items[k].link,
         guid        |-> [isPermaLink |-> "true", text |-> items[k].link],
         pubDate     |-> items[k].pubDate,
         description |-> items[k].description]]

\* the page count rounded down
total_pages_floor(eps, size) == Len(eps) \div size

\* line 223
total_pages(eps, size) == (Len(eps) + size - 1) \div size

\* line 225-226: episodes[start : start + per_page] of page page_num (from 0)
page_eps(eps, size, page_num) ==
    LET start == page_num * size
        stop  == IF start + size < Len(eps) THEN start + size ELSE Len(eps)
    IN  SubSeq(eps, start + 1, stop)

\* lines 223-260: html_files[k] is what links_page_<k>.html lists
generate_html_pages(eps, size) ==
    [k \in 1..total_pages(eps, size) |-> page_eps(eps, size, k - 1)]

\* lines 338-361: the feeds are exhausted: sort, write the feed and the pages
Finish ==
    /\ pc = "feeds"
    /\ fi > Len(feed_urls)
    /\ all_items' = SortNewestFirst(all_items)
    /\ episodes' = SortNewestFirst(episodes)
    /\ rss_items' = build_rss_channel(SortNewestFirst(all_items))
    /\ html_files' = generate_html_pages(SortNewestFirst(episodes), per_page)
    /\ exit_code' = <<0>>
    /\ pc' = "done"
    /\ UNCHANGED <<environ, feed_urls, tz, now, feeds, fi, ei, cutoff_ts, per_page>>
    /\ UNCHANGED extractVars

MainNext ==
    \/ ReadConfig
    \/ ParseFails
    \/ ParseReturns
    \/ SkipNoLinks
    \/ SkipOld
    \/ KeepEntry
    \/ NextFeed
    \/ Finish

----------------------------------------------------------------------------
(* Specifications *)

IdleExtract ==
    /\ soup = <<>>
    /\ article_links = <<>>
    /\ xpc = "idle"
    /\ strong_tag = 0
    /\ elem = 0

IdleMain ==
    /\ environ = [set |-> FALSE, DAYS_LIMIT |-> ""]
    /\ tz = 0
    /\ feed_urls = <<>>
    /\ now = StartSecs * TicksPerSec
    /\ feeds = <<>>
    /\ pc = "idle"
    /\ fi = 0
    /\ ei = 0
    /\ cutoff_ts = 0
    /\ all_items = <<>>
    /\ episodes = <<>>
    /\ per_page = 10
    /\ rss_items = <<>>
    /\ html_files = <<>>
    /\ exit_code = <<>>

\* extract_article_links on every description
ExtractInit == InitExtract /\ IdleMain

SpecExtract == ExtractInit /\ [][ExtractNext]_vars

\* a run of main
Init == InitMain /\ IdleExtract

\* the longest aggregated list the last stage of main is run on
MaxSorted == 4

\* the largest per_page
MaxPerPage == 3

\* pubDate texts: RFC 822 dates around the epoch and at the start of the run,
\* and a text that is no date
PubDateTexts ==
    {FormatDate(t * TicksPerSec) : t \in {0 - 1, 0, 1, StartSecs}}
    \cup {[fmt |-> "other", secs |-> 0]}

\* main at line 338 with any aggregated lists: one episode and one item for
\* each of the dates
InitFinish ==
    /\ environ = [set |-> FALSE, DAYS_LIMIT |-> ""]
    /\ tz = 0
    /\ feed_urls = <<>>
    /\ now = StartSecs * TicksPerSec
    /\ feeds = <<>>
    /\ pc = "feeds"
    /\ fi = 1
    /\ ei = 0
    /\ cutoff_ts = now - 5 * DaySecs * TicksPerSec
    /\ \E dates \in SeqsUpTo(PubDateTexts, MaxSorted) :
         /\ episodes = [k \in 1..Len(dates) |->
                          [podcast |-> FeedTitle(1),
                           episode |-> EntryTitle(1, k),
                           pubDate |-> dates[k],
                           links   |-> <<[title |-> "Story one",
                                          url   |-> "https://www.ft.com/content/1"]>>]]
         /\ all_items = [k \in 1..Len(dates) |->
                          [title       |-> "Story one",
                           link        |-> "https://www.ft.com/content/1",
                           pubDate     |-> dates[k],
                           description |-> "Article mentioned in '" \o EntryTitle(1, k)
                                            \o "' from " \o FeedTitle(1) \o "."]]
    /\ per_page \in 1..MaxPerPage
    /\ rss_items = <<>>
    /\ html_files = <<>>
    /\ exit_code = <<>>

FinishInit == InitFinish /\ IdleExtract

\* the sort and the renderers on every aggregated list
SpecFinish == FinishInit /\ [][Finish]_vars

Spec == Init /\ [][MainNext]_vars

----------------------------------------------------------------------------
(* Properties of extract_article_links, under SpecExtract *)

\* the first <strong> whose text holds a marker, 0 when there is none
FirstMarkerHeading(doc) ==
    IF \E i \in 1..Len(doc) : IsMarkerHeading(doc, i)
    THEN CHOOSE i \in 1..Len(doc) :
            /\ IsMarkerHeading(doc, i)
            /\ \A k \in 1..(i - 1) : ~IsMarkerHeading(doc, k)
    ELSE 0

\* the first bold or horizontal-rule element after node h, Len(doc) + 1 when
\* there is none: the run of h is the nodes between h and it
RunStop(doc, h) ==
    IF \E j \in (h + 1)..Len(doc) : doc[j].name \in {"strong", "hr"}
    THEN CHOOSE j \in (h + 1)..Len(doc) :
            /\ doc[j].name \in {"strong", "hr"}
            /\ \A k \in (h + 1)..(j - 1) : doc[k].name \notin {"strong", "hr"}
    ELSE Len(doc) + 1

\* the links of the accepted anchors among the nodes lo..hi, in document order
RECURSIVE AcceptedLinks(_, _, _)
AcceptedLinks(doc, lo, hi) ==
    IF lo > hi THEN <<>>
    ELSE (IF AnchorAccepted(doc, lo) THEN <<LinkOf(doc, lo)>> ELSE <<>>)
         \o AcceptedLinks(doc, lo + 1, hi)

\* C1: when the run of the first bold element that holds a marker has no
\* qualifying anchor, extract returns the empty sequence, whatever follows a
\* later bold element that holds a marker.
C1_LaterHeadingNeverUsed ==
    LET h == FirstMarkerHeading(soup)
    IN  (/\ xpc = "returned"
         /\ h # 0
         /\ AcceptedLinks(soup, h + 1, RunStop(soup, h) - 1) = <<>>)
        => article_links = <<>>

\* the host name is ft.com or a subdomain of it
OnDotBoundary(domain) == domain = "ft.com" \/ EndsWith(domain, ".ft.com")

\* C2: no returned link has a host name that ends with the characters ft.com
\* without being ft.com or ending with .ft.com (fakeft.com, notft.com).
C2_NoSpoofedHost ==
    \A k \in 1..Len(article_links) : OnDotBoundary(Hostname(article_links[k].url))

\* C5: every returned (title, url) comes from an anchor whose href is present
\* and not empty, is no mailto: URI, has none of the excluded substrings in
\* its lower-cased href and none of the keywords in its lower-cased text.
C5_FilterInvariant ==
    \A k \in 1..Len(article_links) :
        \E j \in 1..Len(soup) :
            LET href == soup[j].href
                text == get_text(soup, j)
            IN  /\ soup[j].name = "a"
                /\ soup[j].hasHref
                /\ href # ""
                /\ article_links[k].url = href
                /\ article_links[k].title = (IF text = "" THEN href ELSE text)
                /\ ~StartsWith(Lower(href), "mailto:")
                /\ \A sub \in {"ft.com/techtonicsurvey", "ft.com/survey", "ep.ft.com",
                               "subscribe", "newsletters", "newsletter",
                               "ft.com/support"} : ~Contains(Lower(href), sub)
                /\ \A kw \in {"sign up", "subscribe", "transcript", "survey",
                              "newsletter", "twitter"} : ~Contains(Lower(text), kw)

\* C5 witness: links were returned from a run that also holds an anchor to an
\* FT page whose text is "Subscribe now"
C5_Witness ==
    /\ xpc = "returned"
    /\ article_links # <<>>
    /\ \E j \in (strong_tag + 1)..(RunStop(soup, strong_tag) - 1) :
          /\ soup[j].name = "a"
          /\ get_text(soup, j) = "Subscribe now"
          /\ Hostname(soup[j].href) = "www.ft.com"

\* C9: when the run of the first bold element that holds a marker yields a
\* link, the result is exactly the accepted anchors between that element and
\* the first bold or horizontal-rule element after it, in document order.
C9_RunBound ==
    LET h == FirstMarkerHeading(soup)
    IN  (/\ xpc = "returned"
         /\ h # 0
         /\ AcceptedLinks(soup, h + 1, RunStop(soup, h) - 1) # <<>>)
        => article_links = AcceptedLinks(soup, h + 1, RunStop(soup, h) - 1)

\* C9 witness: links were returned for the first marker heading, and behind the
\* end of its run stand a later marker heading and an accepted anchor
C9_Witness ==
    LET h == FirstMarkerHeading(soup)
    IN  /\ xpc = "returned"
        /\ h # 0
        /\ article_links # <<>>
        /\ strong_tag = h
        /\ \E g \in (RunStop(soup, h))..Len(soup) :
              /\ IsMarkerHeading(soup, g)
              /\ \E j \in (g + 1)..Len(soup) : AnchorAccepted(soup, j)

\* the anchor at a holds a bold element
HoldsBold(doc, a) ==
    /\ doc[a].name = "a"
    /\ \E s \in (a + 1)..Len(doc) : doc[s].name = "strong" /\ IsDescendant(doc, s, a)

\* the anchors of the run being walked (or returned) that hold a bold element
\* and that the walk has passed
BoldAnchorsPassed ==
    {a \in (strong_tag + 1)..(RunStop(soup, strong_tag) - 1) :
        /\ xpc \in {"walk", "returned"}
        /\ HoldsBold(soup, a)
        /\ xpc = "walk" => a < elem}

\* the links of the accepted anchors among the nodes lo..hi that hold no bold
\* element, in document order
RECURSIVE PlainLinks(_, _, _)
PlainLinks(doc, lo, hi) ==
    IF lo > hi THEN <<>>
    ELSE (IF AnchorAccepted(doc, lo) /\ ~HoldsBold(doc, lo) THEN <<LinkOf(doc, lo)>> ELSE <<>>)
         \o PlainLinks(doc, lo + 1, hi)

\* C10 as stated: once the walk has passed an anchor that holds a bold element,
\* nothing behind that anchor is collected for the heading.
C10_NothingAfterBoldAnchor ==
    \A a \in BoldAnchorsPassed :
        article_links = PlainLinks(soup, strong_tag + 1, a - 1)

\* C10 amended: the anchor is not collected, the walk never goes past the
\* first bold element the anchor holds, and nothing behind that bold element is
\* collected for the heading (an anchor inside the skipped anchor, before its
\* bold element, is).
C10_NothingAfterNestedBold ==
    \A a \in BoldAnchorsPassed :
        LET s    == RunStop(soup, a)
            upto == IF xpc = "walk" /\ elem <= s THEN elem - 1 ELSE s - 1
        IN  /\ xpc = "walk" => elem <= s
            /\ article_links = PlainLinks(soup, strong_tag + 1, upto)

\* C10 witness: the walk stopped inside an anchor that holds a bold element,
\* with links collected before it and an accepted anchor right behind it
C10_Witness ==
    /\ xpc = "returned"
    /\ \E a \in BoldAnchorsPassed :
          LET s == RunStop(soup, a)
          IN  /\ article_links # <<>>
              /\ \E j \in (s + 1)..Len(soup) :
                    /\ AnchorAccepted(soup, j)
                    /\ \A k \in (s + 1)..j : soup[k].name \notin {"strong", "hr"}

----------------------------------------------------------------------------
(* Properties of main, under Spec *)

\* the entries read: <<f, e>> is the e-th entry of the f-th feed
EntriesOfRun ==
    {fe \in (1..Len(feeds)) \X (1..MaxEntries) : fe[2] <= Len(feeds[fe[1]].entries)}

EntryAt(fe) == feeds[fe[1]].entries[fe[2]]

\* the entry yields at least one link
YieldsLinks(fe) == EntryLinks(EntryAt(fe)) # <<>>

\* the entry has a published time older than the cutoff
OlderThanCutoff(fe) ==
    /\ EntryAt(fe).dated
    /\ (EntryAt(fe).published_parsed - tz) * TicksPerSec < cutoff_ts

\* the episodes and the items made for the entry
EpisodesFor(fe) ==
    {k \in 1..Len(episodes) :
        /\ episodes[k].podcast = FeedTitle(fe[1])
        /\ episodes[k].episode = EntryAt(fe).title}

ItemsFor(fe) ==
    {k \in 1..Len(all_items) :
        all_items[k].description =
            "Article mentioned in '" \o EntryAt(fe).title \o "' from "
                \o FeedTitle(fe[1]) \o "."}

Included == {fe \in EntriesOfRun : YieldsLinks(fe) /\ ~OlderThanCutoff(fe)}

\* the urls accepted for the included entries
AcceptedUrls ==
    {EntryLinks(EntryAt(fe))[k].url : k \in 1..2, fe \in {x \in Included : Len(EntryLinks(EntryAt(x))) >= 2}}
    \cup {EntryLinks(EntryAt(fe))[1].url : fe \in Included}

\* the <item> elements whose link text and guid text are both url
ItemsWith(url) ==
    {k \in 1..Len(rss_items) : rss_items[k].link = url /\ rss_items[k].guid.text = url}

\* how many accepted links of the included entries have this url
RECURSIVE Occurrences(_, _)
Occurrences(S, url) ==
    IF S = {} THEN 0
    ELSE LET fe    == CHOOSE x \in S : TRUE
             links == EntryLinks(EntryAt(fe))
         IN  Cardinality({k \in 1..Len(links) : links[k].url = url})
             + Occurrences(S \ {fe}, url)

\* C4 as stated: the url of every link accepted for an included entry is the
\* link text and the guid text of exactly one <item>.
C4_ExactlyOneItemPerUrl ==
    pc = "done" => \A url \in AcceptedUrls : Cardinality(ItemsWith(url)) = 1

\* C4 amended: the url is the link text and the guid text of exactly one
\* <item> for each time it was accepted for an included entry: never of none,
\* and of more than one when two included entries give the same url.
C4_OneItemPerAcceptedLink ==
    pc = "done" =>
        /\ \A url \in AcceptedUrls :
              /\ Cardinality(ItemsWith(url)) = Occurrences(Included, url)
              /\ Cardinality(ItemsWith(url)) >= 1
        /\ \A k \in 1..Len(rss_items) : rss_items[k].link \in AcceptedUrls

\* C4 witness: a finished run in which two included entries gave the same url
C4_Witness ==
    /\ pc = "done"
    /\ \E url \in AcceptedUrls : Cardinality(ItemsWith(url)) = 2
    /\ Cardinality(Included) = 2

\* C8: whatever feeds fail, the run stays inside main's loops, where a step
\* is always possible (a feed url is parsed or the write stage runs; an entry
\* is handled or the next feed starts), until the write stage is done, and
\* then has returned 0; every feed url is read, a failing feed gives nothing, and the
\* episodes and items are exactly those of the entries of the other feeds.
C8_PartialFailure ==
    /\ pc \in {"config", "feeds", "entries", "done"}
    /\ pc = "done" =>
          /\ exit_code = <<0>>
          /\ Len(feeds) = Len(feed_urls)
          /\ Len(rss_items) = Len(all_items)
          /\ \A f \in 1..Len(feeds) :
                ~feeds[f].ok =>
                   /\ \A k \in 1..Len(episodes) : episodes[k].podcast # FeedTitle(f)
                   /\ \A k \in 1..Len(all_items) :
                         ~EndsWith(all_items[k].description, " from " \o FeedTitle(f) \o ".")
          /\ \A fe \in Included :
                /\ feeds[fe[1]].ok
                /\ Cardinality(EpisodesFor(fe)) = 1
                /\ Cardinality(ItemsFor(fe)) = Len(EntryLinks(EntryAt(fe)))
          /\ \A k \in 1..Len(episodes) : \E fe \in Included : k \in EpisodesFor(fe)
          /\ \A k \in 1..Len(all_items) : \E fe \in Included : k \in ItemsFor(fe)

\* C8 witness: a finished run in which a feed failed between two feeds that
\* both gave an episode
C8_Witness ==
    /\ pc = "done"
    /\ \E f \in 2..(Len(feeds) - 1) :
          /\ ~feeds[f].ok
          /\ \E fe \in Included : fe[1] < f
          /\ \E fe \in Included : fe[1] > f

----------------------------------------------------------------------------
(* Properties of the last stage of main, under SpecFinish *)

\* the least number of pages of size p that hold n episodes
PagesNeeded(n, p) == CHOOSE m \in 0..n : m * p >= n /\ \A l \in 0..(m - 1) : l * p < n

\* C6: ceil(n/p) pages are written, none when n = 0; page k lists the episodes
\* at positions (k-1)*p .. min(k*p, n)-1 (counted from 0) in input order, so
\* every episode is on exactly one page and only the last page may be short.
C6_Partition ==
    pc = "done" =>
        LET n == Len(episodes)
            p == per_page
        IN  /\ Len(html_files) = PagesNeeded(n, p)
            /\ \A k \in 1..Len(html_files) :
                  LET first == (k - 1) * p + 1
                      last  == IF k * p < n THEN k * p ELSE n
                  IN  /\ html_files[k] = [i \in 1..(last - first + 1) |-> episodes[first + i - 1]]
                      /\ k < Len(html_files) => Len(html_files[k]) = p
                      /\ Len(html_files[k]) \in 1..p
            /\ \A i \in 1..n :
                  Cardinality({k \in 1..Len(html_files) :
                                  i - (k - 1) * p \in 1..Len(html_files[k])}) = 1

\* C6 witness: several pages were written and the last one is short
C6_Witness ==
    /\ pc = "done"
    /\ Len(html_files) >= 2
    /\ Len(html_files[Len(html_files)]) < per_page
    /\ Len(html_files[1]) = per_page

\* the instant a pubDate text sorts by: a text that is no date counts as the epoch
SortInstant(pubDate) == IF pubDate.fmt = "rfc822" THEN pubDate.secs * TicksPerSec ELSE 0

NewestFirst(list) ==
    \A i, j \in 1..Len(list) :
        i < j => SortInstant(list[i].pubDate) >= SortInstant(list[j].pubDate)

\* every text that is no date stands behind every date
UnparsableLast(list) ==
    \A i, j \in 1..Len(list) :
        (list[i].pubDate.fmt # "rfc822" /\ list[j].pubDate.fmt = "rfc822") => j < i

\* every text that is no date stands behind every date later than the epoch
UnparsableBehindLaterDates(list) ==
    \A i, j \in 1..Len(list) :
        (/\ list[i].pubDate.fmt # "rfc822"
         /\ list[j].pubDate.fmt = "rfc822"
         /\ list[j].pubDate.secs > 0) => j < i

====
